---- MODULE Spec2Model ----
(***************************************************************************)
(* A model of webcandy-client: the control session (client.start_client),  *)
(* the Controller that owns the lighting-configuration process             *)
(* (controller.py), the renderer supervisor (fcserver.py) and the          *)
(* LightConfig factory and run methods (opclib/interface.py).              *)
(*                                                                         *)
(* Three specifications share the variables:                                 *)
(*   Spec     the client process: main, start_client, Controller, the      *)
(*            child processes that execute a configuration;                *)
(*   RunSpec  one command given to LightConfig.factory and the resulting   *)
(*            configuration's run() method driven step by step;            *)
(*   FcSpec   one FadecandyServer given start() and stop() calls in any    *)
(*            order.                                                       *)
(***************************************************************************)
EXTENDS Integers, Sequences, FiniteSets, TLC

VARIABLES
    \* ---- main() and FadecandyServer (client.py 216-262, fcserver.py)
    mainpc,              \* position of main()
    exit_status,         \* status given to sys.exit, -1 while running
    server_running,      \* FadecandyServer._server_running
    fcserver_proc,       \* FadecandyServer._fcserver_proc: "None", "running", "terminated"
    atexit_stop,         \* whether atexit.register(self.stop) has been called
    calls,               \* FcSpec: the start() and stop() calls made so far
    \* ---- start_client (client.py 91-186)
    pc,                  \* position of start_client
    reconnect_attempts,  \* its local of that name
    wait,                \* the last delay given to time.sleep
    inbox,               \* messages queued on the open connection
    closed,              \* 1 once the server has closed the connection, else 0
    sent,                \* handshake messages sent on the current connection
    hs,                  \* the data of the last of them
    logged,              \* what the receive loop logged in the latest step
    consec,              \* history: failed attempts since the last handshake
    \* ---- Controller and its child processes (controller.py)
    current_proc,        \* Controller._current_proc of the live Controller (0: None)
    procs,               \* the multiprocessing.Process objects that exist
    \* ---- LightConfig.factory(...).run() taken alone (interface.py)
    kwargs,              \* the keyword arguments given to factory
    light,               \* what factory returned or raised
    rpc,                 \* position of run()
    pushed,              \* frames given to client.put_pixels, in order
    cursor,              \* number of frames produced by next(self)
    slept                \* denominators d of the delays 1/d (or 2 for 0.5s) slept

mainvars   == <<mainpc, exit_status, server_running, fcserver_proc, atexit_stop,
                calls>>
clientvars == <<pc, reconnect_attempts, wait, inbox, closed, sent, consec,
                hs, logged>>
ctlvars    == <<current_proc, procs>>
runvars    == <<kwargs, light, rpc, pushed, cursor, slept>>
vars       == <<mainvars, clientvars, ctlvars, runvars>>

(***************************************************************************)
(* Bounds of the model.                                                    *)
(***************************************************************************)
MaxInbox  == 2      \* messages queued on a connection
MaxEarly  == 1      \* of them, messages that arrive before the handshake is sent
MaxProcs  == 2      \* Process objects that exist at one time
MaxTicks  == 3      \* iterations of a dynamic run that are followed
MaxCalls  == 4      \* calls of start() and stop() in FcSpec
NumLeds   == 2      \* LEDs of a frame (num_leds, 512 in the source)

(***************************************************************************)
(* Values.  A Python str is a sequence of one-character strings; None is   *)
(* its own value.                                                          *)
(***************************************************************************)
None == [tag |-> "None", chars |-> <<>>, items |-> <<>>, n |-> 0]
PyStr(cs) == [tag |-> "str", chars |-> cs, items |-> <<>>, n |-> 0]
PyList(xs) == [tag |-> "list", chars |-> <<>>, items |-> xs, n |-> 0]
PyInt(i) == [tag |-> "int", chars |-> <<>>, items |-> <<>>, n |-> i]

\* Python truthiness of a value: None, "", [] and 0 are falsy.
Truthy(v) ==
    CASE v.tag = "None" -> FALSE
      [] v.tag = "str"  -> v.chars # <<>>
      [] v.tag = "list" -> v.items # <<>>
      [] v.tag = "int"  -> v.n # 0

HexDigits == {"0", "1", "2", "3", "4", "5", "6", "7", "8", "9",
              "a", "b", "c", "d", "e", "f", "A", "B", "C", "D", "E", "F"}

\* opcutil.is_color: a '#' followed by exactly six hexadecimal digits.
is_color(c) ==
    /\ c.tag = "str"
    /\ Len(c.chars) = 7
    /\ c.chars[1] = "#"
    /\ \A i \in 2..7 : c.chars[i] \in HexDigits

HexVal(d) ==
    CASE d = "0" -> 0 [] d = "1" -> 1 [] d = "2" -> 2 [] d = "3" -> 3
      [] d = "4" -> 4 [] d = "5" -> 5 [] d = "6" -> 6 [] d = "7" -> 7
      [] d = "8" -> 8 [] d = "9" -> 9
      [] d \in {"a", "A"} -> 10 [] d \in {"b", "B"} -> 11
      [] d \in {"c", "C"} -> 12 [] d \in {"d", "D"} -> 13
      [] d \in {"e", "E"} -> 14 [] d \in {"f", "F"} -> 15

\* opcutil.get_color: '#RRGGBB' to the tuple (r, g, b).
get_color(c) ==
    << 16 * HexVal(c.chars[2]) + HexVal(c.chars[3]),
       16 * HexVal(c.chars[4]) + HexVal(c.chars[5]),
       16 * HexVal(c.chars[6]) + HexVal(c.chars[7]) >>

Red      == PyStr(<<"#", "F", "F", "0", "0", "0", "0">>)
Green    == PyStr(<<"#", "0", "0", "f", "f", "0", "0">>)
NoHash   == PyStr(<<"F", "F", "0", "0", "0", "0">>)
BadDigit == PyStr(<<"#", "G", "G", "0", "0", "0", "0">>)
TooShort == PyStr(<<"#", "F", "F", "F">>)
Empty    == PyStr(<<>>)

Colors     == {None, Empty, Red, Green, NoHash, BadDigit, TooShort}
ColorLists == {None, PyList(<<>>), PyList(<<Red>>), PyList(<<Red, Green>>),
               PyList(<<Red, BadDigit>>), PyList(<<TooShort>>)}
Speeds     == {None, PyInt(0 - 1), PyInt(0), PyInt(1), PyInt(2)}
PatternNames == {"fade", "scroll", "solid_color", "stripes", "off",
                 "Fade", "SolidColor", "rainbow", "None"}

Kwargs == [pattern : PatternNames, strobe : BOOLEAN, color : Colors,
           color_list : ColorLists, speed : Speeds]

(***************************************************************************)
(* What start_client sends and logs.  The handshake is the JSON of the     *)
(* function's token, client_name and patterns arguments (client.py         *)
(* 112-116); the arguments are never assigned to.  A log record of the     *)
(* receive loop is its level and the text or the close code it quotes.     *)
(***************************************************************************)
Token == "token"
ClientName == "client_name"
\* The class attribute `speed` of the dynamic patterns (updates per second).
DefaultSpeed == 5

\* The pattern classes as process_config sees them: the class's __name__
\* (cls), whether it derives from StaticLightConfig or DynamicLightConfig
\* (base), its `name` property, its class attribute speed and the arguments
\* of its constructor (solid_color.py 6-15, off.py 4-14).
SolidColorClass == [cls |-> "SolidColor", base |-> "static",
                    name |-> "solid_color", speed |-> 0,
                    args |-> <<"self", "color", "num_leds", "port">>]
OffClass == [cls |-> "Off", base |-> "static", name |-> "off", speed |-> 0,
             args |-> <<"self">>]
FadeClass == [cls |-> "Fade", base |-> "dynamic", name |-> "fade",
              speed |-> DefaultSpeed,
              args |-> <<"self", "color_list", "speed", "num_leds", "port">>]
ScrollClass == [FadeClass EXCEPT !.cls = "Scroll", !.name = "scroll"]
StripesClass == [cls |-> "Stripes", base |-> "static", name |-> "stripes",
                 speed |-> 0,
                 args |-> <<"self", "color_list", "num_leds", "port">>]

\* getattr(opclib.patterns, p) (client.py 64).
getattr_patterns(p) ==
    CASE p = "SolidColor" -> SolidColorClass
      [] p = "Off" -> OffClass
      [] p = "Fade" -> FadeClass
      [] p = "Scroll" -> ScrollClass
      [] p = "Stripes" -> StripesClass

\* process_config (client.py 32-53): default_speed is a key of the result
\* only for a subclass of DynamicLightConfig.
process_config(c) ==
    LET config_type == IF c.base = "static" THEN "static"
                       ELSE IF c.base = "dynamic" THEN "dynamic"
                       ELSE "unknown"
        args == SelectSeq(c.args, LAMBDA a : a # "self")
    IN  IF c.base = "dynamic"
        THEN [name |-> c.cls, default_speed |-> c.speed,
              type |-> config_type, args |-> args]
        ELSE [name |-> c.cls, type |-> config_type, args |-> args]

\* gen_patterns (client.py 56-64).
gen_patterns(ps) == [i \in DOMAIN ps |-> process_config(getattr_patterns(ps[i]))]

\* opclib.pattern_names, the __all__ of opclib.patterns.
pattern_names == <<"Fade", "Scroll", "SolidColor", "Stripes", "Off">>

\* The catalog main gives to start_client (client.py 258-260).
Patterns == gen_patterns(pattern_names)
NoData == [token |-> "", client_name |-> "", patterns |-> <<>>]

\* The handshake without the pattern catalog.
handshake_data_nocatalog(token, client_name, patterns) ==
    [token |-> token, client_name |-> client_name, patterns |-> <<>>]

handshake_data(token, client_name, patterns) ==
    [token |-> token, client_name |-> client_name, patterns |-> patterns]

NoLog == [level |-> "none", text |-> <<>>, code |-> 0]
\* logger.info(f'Received text: {message}') (client.py 132).
LogText(t) == [level |-> "info", text |-> t, code |-> 0]
\* 'Server closed connection, code: {err.code}, ...' (client.py 134-143).
LogClosed(level, code) == [level |-> level, text |-> <<>>, code |-> code]

(***************************************************************************)
(* LightConfig.factory (interface.py 70-144).  A configuration is a record *)
(* of what the pattern classes keep: its factory name, whether it is       *)
(* static or dynamic, the strobe wrapping, its colours and its speed.      *)
(* exc names the exception when the call raised instead of returning.      *)
(***************************************************************************)
NoLight == [exc |-> "unset", name |-> "", type |-> "", strobe |-> FALSE,
            color |-> <<>>, colors |-> <<>>, speed |-> 0]
Raised(e) == [NoLight EXCEPT !.exc = e]
IsLight(l) == l.exc = "none"

\* patterns.SolidColor(color) (solid_color.py 15-21).
SolidColor(c) == [exc |-> "none", name |-> "solid_color", type |-> "static",
                  strobe |-> FALSE, color |-> get_color(c), colors |-> <<>>,
                  speed |-> 0]
\* patterns.Off() (off.py 13-14): SolidColor('#000000').
Off == [SolidColor(PyStr(<<"#", "0", "0", "0", "0", "0", "0">>))
            EXCEPT !.name = "off"]
\* patterns.Fade, patterns.Scroll, patterns.Stripes on a validated colour list.
ToColors(cl) == [i \in 1..Len(cl.items) |-> get_color(cl.items[i])]
Fade(cl) == [exc |-> "none", name |-> "fade", type |-> "dynamic",
             strobe |-> FALSE, color |-> <<>>, colors |-> ToColors(cl),
             speed |-> DefaultSpeed]
Scroll(cl) == [Fade(cl) EXCEPT !.name = "scroll"]
Stripes(cl) == [exc |-> "none", name |-> "stripes", type |-> "static",
                strobe |-> FALSE, color |-> <<>>, colors |-> ToColors(cl),
                speed |-> 0]
\* patterns.Strobe(light): the wrapping keeps the wrapped configuration.
Strobe(l) == [l EXCEPT !.strobe = TRUE]

\* factory.get_color (interface.py 89-99): TRUE when it returns, FALSE when
\* it raises ValueError.
factory_get_color(color) == ~(~Truthy(color) \/ ~is_color(color))

\* factory.get_color_list without its test for an empty or absent list.
factory_get_color_list_noempty(color_list) ==
    /\ color_list.tag = "list"
    /\ \A i \in 1..Len(color_list.items) : is_color(color_list.items[i])

\* factory.get_color_list (interface.py 101-112): TRUE when it returns.
factory_get_color_list(color_list) ==
    ~(\/ ~Truthy(color_list)
      \/ ~(\A i \in 1..Len(color_list.items) : is_color(color_list.items[i])))

\* factory.set_speed (interface.py 114-123).
set_speed(l, speed) == IF Truthy(speed) THEN [l EXCEPT !.speed = speed.n] ELSE l

factory(k) ==
    LET made ==
          CASE k.pattern = "fade" ->
                 IF factory_get_color_list(k.color_list)
                 THEN set_speed(Fade(k.color_list), k.speed)
                 ELSE Raised("ValueError")
            [] k.pattern = "scroll" ->
                 IF factory_get_color_list(k.color_list)
                 THEN set_speed(Scroll(k.color_list), k.speed)
                 ELSE Raised("ValueError")
            [] k.pattern = "solid_color" ->
                 IF factory_get_color(k.color)
                 THEN SolidColor(k.color)
                 ELSE Raised("ValueError")
            [] k.pattern = "stripes" ->
                 IF factory_get_color_list(k.color_list)
                 THEN Stripes(k.color_list)
                 ELSE Raised("ValueError")
            [] k.pattern = "off" -> Off
            [] OTHER -> Raised("ValueError")
    IN  IF IsLight(made) /\ k.strobe THEN Strobe(made) ELSE made

(***************************************************************************)
(* Frames.  A frame is a sequence of num_leds colour tuples.               *)
(***************************************************************************)
Black == <<0, 0, 0>>
BlackFrame == [i \in 1..NumLeds |-> Black]

\* Stripes.pattern: the colours repeated along the strip.
stripes_pattern(l) ==
    [i \in 1..NumLeds |-> l.colors[((i - 1) % Len(l.colors)) + 1]]

\* pattern() of a static configuration: SolidColor.pattern
\* (solid_color.py 23-24) gives every LED the one colour.
pattern(l) ==
    IF l.name = "stripes"
    THEN stripes_pattern(l)
    ELSE [i \in 1..NumLeds |-> l.color]

\* next(self) of a dynamic configuration after c frames have been produced:
\* Fade shows one colour of the cycle, Scroll shifts the colours by one LED.
NextFrame(l, c) ==
    IF l.name = "fade"
    THEN [i \in 1..NumLeds |-> l.colors[((c - 1) % Len(l.colors)) + 1]]
    ELSE [i \in 1..NumLeds |-> l.colors[((i - 1 + c) % Len(l.colors)) + 1]]

(***************************************************************************)
(* RunSpec: factory on the keyword arguments, then run() on its result.     *)
(***************************************************************************)
MainIdle ==
    /\ mainpc = "unused" /\ exit_status = 0 - 1 /\ server_running = FALSE
    /\ fcserver_proc = "None" /\ atexit_stop = FALSE /\ calls = <<>>
ClientIdle ==
    /\ pc = "unused" /\ reconnect_attempts = 0 /\ wait = 0
    /\ inbox = <<>> /\ closed = 0 /\ sent = 0 /\ consec = 0
    /\ hs = NoData /\ logged = NoLog
CtlIdle ==
    /\ current_proc = 0
    /\ procs = <<>>

\* What the steps of factory and run() leave alone.
RunFrame == UNCHANGED <<mainvars, clientvars, ctlvars>>

RunInit ==
    /\ MainIdle /\ ClientIdle /\ CtlIdle
    /\ kwargs \in Kwargs
    /\ light = NoLight
    /\ rpc = "factory"
    /\ pushed = <<>>
    /\ cursor = 0
    /\ slept = <<>>

\* LightConfig.factory on the keyword arguments (interface.py 70-144).
CallFactory ==
    /\ rpc = "factory"
    /\ light' = factory(kwargs)
    /\ rpc' = IF IsLight(light') THEN "built" ELSE "raised"
    /\ UNCHANGED <<kwargs, pushed, cursor, slept>>
    /\ RunFrame

\* StaticLightConfig.run (interface.py 162-172), one statement per step.
StaticBlack1 ==
    /\ rpc = "built" /\ light.type = "static" /\ ~light.strobe
    /\ pushed' = Append(pushed, BlackFrame)
    /\ rpc' = "static_black2"
    /\ UNCHANGED <<kwargs, light, cursor, slept>>
    /\ RunFrame

\* A run that pushes the all-black frame only once before the pause.
StaticBlack2_once ==
    /\ rpc = "static_black2"
    /\ rpc' = "static_sleep"
    /\ UNCHANGED <<kwargs, light, pushed, cursor, slept>>
    /\ RunFrame

StaticBlack2 ==
    /\ rpc = "static_black2"
    /\ pushed' = Append(pushed, BlackFrame)
    /\ rpc' = "static_sleep"
    /\ UNCHANGED <<kwargs, light, cursor, slept>>
    /\ RunFrame

StaticSleep ==
    /\ rpc = "static_sleep"
    /\ slept' = Append(slept, 2)          \* time.sleep(0.5)
    /\ rpc' = "static_pattern"
    /\ UNCHANGED <<kwargs, light, pushed, cursor>>
    /\ RunFrame

StaticPattern ==
    /\ rpc = "static_pattern"
    /\ pushed' = Append(pushed, pattern(light))
    /\ rpc' = "finished"
    /\ UNCHANGED <<kwargs, light, cursor, slept>>
    /\ RunFrame

\* DynamicLightConfig.run (interface.py 201-205): next(self) and put_pixels.
DynamicPush ==
    /\ rpc \in {"built", "dynamic_loop"} /\ light.type = "dynamic" /\ ~light.strobe
    /\ cursor < MaxTicks
    /\ cursor' = cursor + 1
    /\ pushed' = Append(pushed, NextFrame(light, cursor'))
    /\ rpc' = "dynamic_sleep"
    /\ UNCHANGED <<kwargs, light, slept>>
    /\ RunFrame

\* time.sleep(1 / self.speed): a negative delay raises ValueError.
DynamicSleep ==
    /\ rpc = "dynamic_sleep"
    /\ IF light.speed > 0
       THEN /\ slept' = Append(slept, light.speed)
            /\ rpc' = "dynamic_loop"
       ELSE /\ slept' = slept
            /\ rpc' = "raised"
    /\ UNCHANGED <<kwargs, light, pushed, cursor>>
    /\ RunFrame

Running == rpc \in {"static_black2", "static_sleep", "static_pattern",
                    "dynamic_sleep", "dynamic_loop"}

\* Process.terminate() on the process that executes run().
Terminate ==
    /\ Running
    /\ rpc' = "terminated"
    /\ UNCHANGED <<kwargs, light, pushed, cursor, slept>>
    /\ RunFrame

RunNext ==
    \/ CallFactory
    \/ StaticBlack1 \/ StaticBlack2 \/ StaticSleep \/ StaticPattern
    \/ DynamicPush \/ DynamicSleep
    \/ Terminate

RunSpec == RunInit /\ [][RunNext]_vars

(***************************************************************************)
(* Spec: the client process.                                               *)
(***************************************************************************)
RunIdle ==
    /\ kwargs = [pattern |-> "None", strobe |-> FALSE, color |-> None,
                 color_list |-> None, speed |-> None]
    /\ light = NoLight /\ rpc = "unused" /\ pushed = <<>> /\ cursor = 0
    /\ slept = <<>>

\* What the steps of the client process leave alone.
ClientFrame == UNCHANGED runvars

(***************************************************************************)
(* Messages of the server.  The queue of the connection holds the kind of  *)
(* each message: a JSON object, a JSON value that is no object, or a text  *)
(* that is no JSON; what the message says is drawn when it is received,    *)
(* and so is the code of a close.                                          *)
(* json.loads either returns the decoded value or raises JSONDecodeError.  *)
(***************************************************************************)
MessageKinds == {"object", "array", "text"}
Decodes(m) == m \in {"object", "array"}
IsMapping(m) == m = "object"

\* The texts that are drawn, as sequences of words, and
\* message.startswith('[Webcandy]') (client.py 131).
Texts == {<<"[Webcandy]", "ping">>, <<"notice">>, <<"a", "[Webcandy]">>, <<>>}
StartsWithMarker(t) == Len(t) > 0 /\ t[1] = "[Webcandy]"

NoKwargs == [pattern |-> "None", strobe |-> FALSE, color |-> None,
             color_list |-> None, speed |-> None]
CmdFade    == [NoKwargs EXCEPT !.pattern = "fade",
                               !.color_list = PyList(<<Red, Green>>)]
CmdUnknown == [NoKwargs EXCEPT !.pattern = "rainbow"]
Commands   == {CmdFade, CmdUnknown}

(***************************************************************************)
(* Controller (controller.py 34-75).  procs holds the Process objects that *)
(* exist: those whose process has not ended, and the one the Controller    *)
(* refers to.  A process is a record: the keyword arguments it was created *)
(* with and its state: "started" while it executes, "signalled" once       *)
(* SIGTERM has been sent to it and it has not ended yet, "dead".  A slot   *)
(* without a process holds NoProc.                                         *)
(***************************************************************************)
Pids == 1..MaxProcs
NoProc == [kwargs |-> NoKwargs, state |-> "none"]
Exists(p) == p.state # "none"
is_alive(p) == p.state \in {"started", "signalled"}

\* Controller._terminate_current_proc (controller.py 64-75): the processes
\* after the call.  Process.terminate() sends SIGTERM and returns.
terminate_current_proc(ps, cur) ==
    IF cur # 0 /\ is_alive(ps[cur])
    THEN [ps EXCEPT ![cur].state = "signalled"]
    ELSE ps

\* The processes once the Controller no longer refers to cur: an ended
\* process that nothing refers to is gone, and of one that still executes
\* only the state is followed, since nothing reads its arguments again.
Unreferenced(ps, cur) ==
    IF cur = 0 THEN ps
    ELSE IF ps[cur].state = "dead" THEN [ps EXCEPT ![cur] = NoProc]
    ELSE [ps EXCEPT ![cur].kwargs = NoKwargs]

\* The slot of the next process created: the first one that holds none.
FreePids(ps) == {p \in Pids : ~Exists(ps[p])}
NewPid(ps) == CHOOSE p \in FreePids(ps) : \A q \in FreePids(ps) : p <= q

\* A Controller that starts nothing once the run it refers to has ended.
set_current_proc_stuck(ps, cur, k) ==
    IF cur # 0 /\ ~is_alive(ps[cur])
    THEN ps
    ELSE [Unreferenced(terminate_current_proc(ps, cur), cur)
             EXCEPT ![NewPid(ps)] = [kwargs |-> k, state |-> "started"]]

\* Controller._set_current_proc (controller.py 54-62): terminate, create,
\* start.
set_current_proc(ps, cur, k) ==
    [Unreferenced(terminate_current_proc(ps, cur), cur)
        EXCEPT ![NewPid(ps)] = [kwargs |-> k, state |-> "started"]]

\* Number of positional arguments LightConfig.run takes besides self
\* (interface.py 147, 162, 201), and the number execute passes to it
\* (controller.py 29).
RunParams == 0
ExecuteRunArgs == 2

\* execute in the child (controller.py 18-31): how the call ends.  factory
\* raises ValueError, which is logged; or it returns a configuration and
\* .run(host, port) on a method declared run(self) raises TypeError, which
\* execute does not catch.  Either way the process ends without a frame.
execute(k) ==
    IF ~IsLight(factory(k)) THEN "ValueError"
    ELSE IF ExecuteRunArgs # RunParams THEN "TypeError"
    ELSE "running"

\* The processes after process p has ended.
Ended(ps, p, cur) ==
    IF p = cur THEN [ps EXCEPT ![p].state = "dead"] ELSE [ps EXCEPT ![p] = NoProc]

\* The first frame run() gives to put_pixels (interface.py 167, 202-204).
FirstFrame(l) == IF l.type = "static" THEN BlackFrame ELSE NextFrame(l, 1)

\* The child process runs execute: to its end when the call raises, else
\* as far as the next frame its run() pushes.
ChildExecute(p) ==
    /\ is_alive(procs[p])
    /\ IF execute(procs[p].kwargs) = "running"
       THEN /\ Len(pushed) < MaxTicks
            /\ pushed' = Append(pushed, FirstFrame(factory(procs[p].kwargs)))
            /\ UNCHANGED procs
       ELSE /\ procs' = Ended(procs, p, current_proc)
            /\ UNCHANGED pushed
    /\ UNCHANGED <<mainvars, clientvars, current_proc>>
    /\ UNCHANGED <<kwargs, light, rpc, cursor, slept>>

\* The SIGTERM sent by terminate() reaches the child.
ChildSigterm(p) ==
    /\ procs[p].state = "signalled"
    /\ procs' = Ended(procs, p, current_proc)
    /\ UNCHANGED <<mainvars, clientvars, current_proc>>
    /\ ClientFrame

(***************************************************************************)
(* start_client (client.py 91-186).                                        *)
(***************************************************************************)
MaxAttempts == 5

\* The delay chosen by the ConnectionRefusedError handler (client.py 149-155).
refused_wait(attempts) ==
    IF attempts = 2 THEN 10
    ELSE IF attempts = 3 THEN 30
    ELSE IF attempts = 4 THEN 60
    ELSE 0

\* The gaierror handler's delay with the 60 second step left out.
gaierror_wait_short(attempts) ==
    IF attempts = 2 THEN 10
    ELSE IF attempts = 3 THEN 30
    ELSE 0

\* The delay chosen by the socket.gaierror handler (client.py 172-178).
gaierror_wait(attempts) ==
    IF attempts = 2 THEN 10
    ELSE IF attempts = 3 THEN 30
    ELSE IF attempts = 4 THEN 60
    ELSE 0

\* The close codes that are drawn: normal closure, going away, abnormal
\* closure.
CloseCodes == {1000, 1001, 1006}

\* The level at which every close code is logged as an error.
closed_level_error(code) == "error"

\* The level of the record for a close (client.py 140-143).
closed_level(code) == IF code \in {1000, 1001} THEN "info" ELSE "error"

\* while reconnect_attempts < 5 (client.py 105-106).
LoopTest ==
    /\ pc = "loop"
    /\ IF reconnect_attempts < MaxAttempts
       THEN pc' = "connect"
       ELSE pc' = "returned"
    /\ logged' = NoLog
    /\ UNCHANGED <<reconnect_attempts, wait, inbox, closed, sent, consec, hs>>
    /\ UNCHANGED <<mainvars, ctlvars>>
    /\ ClientFrame

\* websockets.connect succeeds (client.py 109-110).
ConnectOk ==
    /\ pc = "connect"
    /\ inbox' = <<>>
    /\ closed' = 0
    /\ sent' = 0
    /\ hs' = NoData
    /\ logged' = NoLog
    /\ pc' = "handshake"
    /\ UNCHANGED <<reconnect_attempts, wait, consec>>
    /\ UNCHANGED <<mainvars, ctlvars>>
    /\ ClientFrame

\* except ConnectionRefusedError (client.py 145-163), the sleep included.
ConnectRefused ==
    /\ pc = "connect"
    /\ reconnect_attempts' = reconnect_attempts + 1
    /\ wait' = refused_wait(reconnect_attempts')
    /\ consec' = consec + 1
    /\ pc' = "loop"
    /\ logged' = NoLog
    /\ UNCHANGED <<inbox, closed, sent, hs>>
    /\ UNCHANGED <<mainvars, ctlvars>>
    /\ ClientFrame

\* except socket.gaierror (client.py 165-186), the sleep included.
ConnectGaierror ==
    /\ pc = "connect"
    /\ reconnect_attempts' = reconnect_attempts + 1
    /\ wait' = gaierror_wait(reconnect_attempts')
    /\ consec' = consec + 1
    /\ pc' = "loop"
    /\ logged' = NoLog
    /\ UNCHANGED <<inbox, closed, sent, hs>>
    /\ UNCHANGED <<mainvars, ctlvars>>
    /\ ClientFrame

\* The handshake and the new Controller (client.py 112-120).
HandshakeSend ==
    /\ pc = "handshake"
    /\ closed = 0
    /\ sent' = sent + 1
    /\ hs' = handshake_data(Token, ClientName, Patterns)
    /\ logged' = NoLog
    /\ current_proc' = 0
    /\ procs' = Unreferenced(procs, current_proc)
    /\ consec' = 0
    /\ pc' = "active"
    /\ UNCHANGED <<reconnect_attempts, wait, inbox, closed>>
    /\ UNCHANGED mainvars
    /\ ClientFrame

\* websocket.send on a connection that is already closed (client.py 116):
\* ConnectionClosed is raised outside the inner try and no handler of the
\* outer try names it.  Leaving `async with` discards the connection and
\* what was queued on it.
HandshakeClosed ==
    /\ pc = "handshake"
    /\ closed # 0
    /\ pc' = "raised"
    /\ inbox' = <<>>
    /\ closed' = 0
    /\ logged' = NoLog
    /\ UNCHANGED <<reconnect_attempts, wait, sent, consec, hs>>
    /\ UNCHANGED <<mainvars, ctlvars>>
    /\ ClientFrame

\* The server sends a message on the open connection.
Deliver(m) ==
    /\ pc \in {"handshake", "active"}
    /\ closed = 0
    /\ Len(inbox) < (IF pc = "active" THEN MaxInbox ELSE MaxEarly)
    /\ inbox' = Append(inbox, m)
    /\ UNCHANGED <<pc, reconnect_attempts, wait, closed, sent, consec, hs,
                   logged>>
    /\ UNCHANGED <<mainvars, ctlvars>>
    /\ ClientFrame

\* The connection is closed.
ServerClose ==
    /\ pc \in {"handshake", "active"}
    /\ closed = 0
    /\ closed' = 1
    /\ UNCHANGED <<pc, reconnect_attempts, wait, inbox, sent, consec, hs,
                   logged>>
    /\ UNCHANGED <<mainvars, ctlvars>>
    /\ ClientFrame

\* A message t that is no JSON (client.py 125, 129-132): it is logged
\* unless it starts with '[Webcandy]'.
ReceiveText(t) ==
    /\ pc = "active"
    /\ inbox # <<>>
    /\ ~Decodes(Head(inbox))
    /\ inbox' = Tail(inbox)
    /\ logged' = IF ~StartsWithMarker(t)
                 THEN LogText(t)
                 ELSE NoLog
    /\ UNCHANGED <<pc, reconnect_attempts, wait, closed, sent, consec, hs>>
    /\ UNCHANGED <<mainvars, ctlvars>>
    /\ ClientFrame

\* A JSON object with the fields k: controller.run on them (client.py
\* 125-128, controller.py 41-62).
ReceiveCommand(k) ==
    /\ pc = "active"
    /\ inbox # <<>>
    /\ Decodes(Head(inbox))
    /\ IsMapping(Head(inbox))
    /\ FreePids(procs) # {}
    /\ inbox' = Tail(inbox)
    /\ procs' = set_current_proc(procs, current_proc, k)
    /\ current_proc' = NewPid(procs)
    /\ logged' = NoLog
    /\ UNCHANGED <<pc, reconnect_attempts, wait, closed, sent, consec, hs>>
    /\ UNCHANGED mainvars
    /\ ClientFrame

\* A JSON value that is no object (client.py 128): ** raises TypeError,
\* which no handler of start_client names.  Leaving `async with` discards
\* the connection and what was queued on it.
ReceiveNonMapping ==
    /\ pc = "active"
    /\ inbox # <<>>
    /\ Decodes(Head(inbox))
    /\ ~IsMapping(Head(inbox))
    /\ inbox' = <<>>
    /\ closed' = 0
    /\ pc' = "raised"
    /\ logged' = NoLog
    /\ UNCHANGED <<reconnect_attempts, wait, sent, consec, hs>>
    /\ UNCHANGED <<mainvars, ctlvars>>
    /\ ClientFrame

\* except websockets.ConnectionClosed (client.py 133-143) with err.code =
\* code: the queued messages are received first; the close is logged at the
\* level its code selects, and control falls out of `async with` to the
\* while loop.
ReceiveClosed(code) ==
    /\ pc = "active"
    /\ inbox = <<>>
    /\ closed # 0
    /\ pc' = "loop"
    /\ closed' = 0
    /\ logged' = LogClosed(closed_level(code), code)
    /\ UNCHANGED <<reconnect_attempts, wait, inbox, sent, consec, hs>>
    /\ UNCHANGED <<mainvars, ctlvars>>
    /\ ClientFrame

(***************************************************************************)
(* main (client.py 216-267) and FadecandyServer (fcserver.py 20-55).       *)
(***************************************************************************)
\* get_token raises requests ConnectionError: return 1 (client.py 242-248).
GetTokenFails ==
    /\ mainpc = "token"
    /\ mainpc' = "exited"
    /\ exit_status' = 1
    /\ UNCHANGED <<server_running, fcserver_proc, atexit_stop, calls>>
    /\ UNCHANGED <<clientvars, ctlvars>>
    /\ ClientFrame

GetTokenOk ==
    /\ mainpc = "token"
    /\ mainpc' = "fcstart"
    /\ UNCHANGED <<exit_status, server_running, fcserver_proc, atexit_stop,
                   calls>>
    /\ UNCHANGED <<clientvars, ctlvars>>
    /\ ClientFrame

\* What s.connect_ex(('127.0.0.1', 7890)) returns (fcserver.py 39): 0 when
\* a renderer is listening, else the platform's errno for a refused
\* connection (111 on Linux, 10061 on Windows, 61 on macOS).
ProbeResults == {0, 111, 10061, 61}

\* The results start() takes for "nothing running" (fcserver.py 41).
NothingRunning == {10061, 111}

\* start() that launches whenever the probe finds nothing, also when it has
\* launched before.
start_launches_noflag(running, result) == result \in NothingRunning

\* Whether start() launches the renderer (fcserver.py 36, 41).
start_launches(running, result) == ~running /\ result \in NothingRunning

\* stop() that terminates whatever the flag says.
stop_terminates_always(running) == TRUE

\* Whether stop() terminates the renderer (fcserver.py 52).
stop_terminates(running) == running

\* FadecandyServer.start (fcserver.py 20-46) as main calls it, followed by
\* the call of start_client (client.py 251-260).  result: what the probe
\* of port 7890 returned.
FcStart(result) ==
    /\ mainpc = "fcstart"
    /\ IF start_launches(server_running, result)
       THEN /\ fcserver_proc' = "running"
            /\ server_running' = TRUE
            /\ atexit_stop' = TRUE
       ELSE UNCHANGED <<server_running, fcserver_proc, atexit_stop>>
    /\ mainpc' = "client"
    /\ pc' = "loop"
    /\ UNCHANGED <<exit_status, calls, reconnect_attempts, wait, inbox, closed,
                   sent, consec, hs, logged>>
    /\ UNCHANGED ctlvars
    /\ ClientFrame

\* FadecandyServer.stop (fcserver.py 48-55), run by atexit when registered.
AtExit ==
    IF atexit_stop /\ stop_terminates(server_running)
    THEN /\ fcserver_proc' = "terminated"
         /\ server_running' = FALSE
    ELSE UNCHANGED <<server_running, fcserver_proc>>

\* start_client returned: main returns 0 and the interpreter exits
\* (client.py 258-267).
MainReturns ==
    /\ mainpc = "client"
    /\ pc = "returned"
    /\ exit_status' = 0
    /\ mainpc' = "exited"
    /\ AtExit
    /\ UNCHANGED <<atexit_stop, calls>>
    /\ UNCHANGED <<clientvars, ctlvars>>
    /\ ClientFrame

\* start_client raised: the exception leaves main and the interpreter
\* exits with status 1.
MainRaises ==
    /\ mainpc = "client"
    /\ pc = "raised"
    /\ exit_status' = 1
    /\ mainpc' = "exited"
    /\ AtExit
    /\ UNCHANGED <<atexit_stop, calls>>
    /\ UNCHANGED <<clientvars, ctlvars>>
    /\ ClientFrame

\* SIGINT after main has set its handler to SIG_DFL (client.py 254): the
\* signal's default action ends the process at once, no atexit function is
\* run, and what start_client held is gone.  The child processes are
\* processes of their own.
Sigint ==
    /\ mainpc = "client"
    /\ pc \notin {"returned", "raised"}
    /\ mainpc' = "exited"
    /\ exit_status' = 0 - 2
    /\ UNCHANGED <<server_running, fcserver_proc, atexit_stop, calls>>
    /\ pc' = "killed"
    /\ reconnect_attempts' = 0 /\ wait' = 0 /\ inbox' = <<>> /\ closed' = 0
    /\ sent' = 0 /\ consec' = 0 /\ hs' = NoData /\ logged' = NoLog
    /\ current_proc' = 0
    /\ procs' = Unreferenced(procs, current_proc)
    /\ ClientFrame

Init ==
    /\ mainpc = "token"
    /\ exit_status = 0 - 1
    /\ server_running = FALSE
    /\ fcserver_proc = "None"
    /\ atexit_stop = FALSE
    /\ calls = <<>>
    /\ pc = "idle"
    /\ reconnect_attempts = 0
    /\ wait = 0
    /\ inbox = <<>>
    /\ closed = 0
    /\ sent = 0
    /\ consec = 0
    /\ hs = NoData
    /\ logged = NoLog
    /\ current_proc = 0
    /\ procs = [p \in Pids |-> NoProc]
    /\ RunIdle

Next ==
    \/ GetTokenFails \/ GetTokenOk
    \/ \E result \in ProbeResults : FcStart(result)
    \/ LoopTest
    \/ ConnectOk \/ ConnectRefused \/ ConnectGaierror
    \/ HandshakeSend \/ HandshakeClosed
    \/ \E m \in MessageKinds : Deliver(m)
    \/ ServerClose
    \/ \E t \in Texts : ReceiveText(t)
    \/ \E k \in Commands : ReceiveCommand(k)
    \/ ReceiveNonMapping
    \/ \E code \in CloseCodes : ReceiveClosed(code)
    \/ \E p \in Pids : ChildExecute(p) \/ ChildSigterm(p)
    \/ MainReturns \/ MainRaises
    \/ Sigint

Spec == Init /\ [][Next]_vars

(***************************************************************************)
(* FcSpec: start() and stop() called on one FadecandyServer in any order,  *)
(* the probe returning any result.  calls records each call: its name,     *)
(* what the probe returned (0 for stop) and what the call did.             *)
(***************************************************************************)
Call(op, result, effect) == [op |-> op, result |-> result, effect |-> effect]

FcFrame == UNCHANGED <<mainpc, exit_status, clientvars, ctlvars, runvars>>

FcInit == MainIdle /\ ClientIdle /\ CtlIdle /\ RunIdle

\* FadecandyServer.start (fcserver.py 20-46).
FcStartCall(result) ==
    /\ Len(calls) < MaxCalls
    /\ IF start_launches(server_running, result)
       THEN /\ fcserver_proc' = "running"
            /\ server_running' = TRUE
            /\ atexit_stop' = TRUE
            /\ calls' = Append(calls, Call("start", result, "launched"))
       ELSE /\ UNCHANGED <<server_running, fcserver_proc, atexit_stop>>
            /\ calls' = Append(calls, Call("start", result, "none"))
    /\ FcFrame

\* FadecandyServer.stop (fcserver.py 48-55).  terminate() on a handle that
\* is None raises AttributeError before the flag is reset.
FcStopCall ==
    /\ Len(calls) < MaxCalls
    /\ IF stop_terminates(server_running)
       THEN IF fcserver_proc = "None"
            THEN /\ UNCHANGED <<server_running, fcserver_proc>>
                 /\ calls' = Append(calls, Call("stop", 0, "AttributeError"))
            ELSE /\ fcserver_proc' = "terminated"
                 /\ server_running' = FALSE
                 /\ calls' = Append(calls, Call("stop", 0, "terminated"))
       ELSE /\ UNCHANGED <<server_running, fcserver_proc>>
            /\ calls' = Append(calls, Call("stop", 0, "none"))
    /\ UNCHANGED atexit_stop
    /\ FcFrame

FcNext ==
    \/ \E result \in ProbeResults : FcStartCall(result)
    \/ FcStopCall

FcSpec == FcInit /\ [][FcNext]_vars

(***************************************************************************)
(* Properties of the Controller and of the session's receive loop.         *)
(***************************************************************************)
\* A step of start_client itself: the process is not killed in it.
Survives == pc' # "killed"

\* A step in which Controller.run created and started a process.
Submitted == current_proc' # current_proc /\ current_proc' # 0

\* C1: on one Controller the outgoing run has terminated before the new
\* run's process is started, so that two runs are never active together.
C1_OutgoingRunTerminated ==
    [][(Submitted /\ current_proc # 0) => ~is_alive(procs'[current_proc])]_vars

\* C2: over the whole session, reconnections included, a command cancels
\* every run started earlier, also one started on an earlier connection,
\* before its own run starts: no other run is left running uncancelled.
C2_EarlierRunsCancelled ==
    [][Submitted =>
         \A p \in Pids \ {current_proc'} : procs'[p].state # "started"]_vars

\* C3: a command whose construction fails leaves the previously active run
\* untouched: it is not terminated and it stays the active run.
C3_BadCommandLeavesRun ==
    [][\A p \in Pids :
         (/\ ~Exists(procs[p])
          /\ Exists(procs'[p])
          /\ ~IsLight(factory(procs'[p].kwargs))
          /\ current_proc # 0)
         => /\ current_proc' = current_proc
            /\ procs'[current_proc] = procs[current_proc]]_vars

\* C4: Controller.run never waits for the run it starts, so every command
\* message delivered on the connection is received and submitted: a queued
\* command stays queued until the step that submits it.
C4_CommandsReceivedAndSubmitted ==
    [][(Survives /\ \E i \in 1..Len(inbox) : inbox[i] = "object") =>
         \/ /\ Len(inbox') >= Len(inbox)
            /\ SubSeq(inbox', 1, Len(inbox)) = inbox
         \/ /\ inbox' = Tail(inbox)
            /\ Head(inbox) = "object" => Submitted]_vars

\* C19: the Controller's slot, once set, is never emptied; a submit after
\* a run that ended on its own terminates nothing and replaces the slot,
\* and only a command whose construction succeeds replaces the slot.
C19_SlotHoldsLastGoodCommand ==
    [][/\ (current_proc # 0 /\ current_proc' = 0 /\ Survives) =>
            pc = "handshake"
       /\ (Submitted /\ current_proc # 0 /\ ~is_alive(procs[current_proc])) =>
            \A p \in Pids : procs'[p].state = "signalled" =>
                                procs[p].state = "signalled"
       /\ Submitted => IsLight(factory(procs'[current_proc'].kwargs))]_vars

\* C20: the process Controller.run starts for a valid command pushes a
\* frame of the constructed pattern: it does not end on its own without
\* having pushed one.
C20_ValidRunPushesFrame ==
    [][\A p \in Pids :
         (/\ procs[p].state = "started"
          /\ IsLight(factory(procs[p].kwargs))
          /\ ~is_alive(procs'[p]))
         => pushed' # <<>>]_vars

(***************************************************************************)
(* Properties of LightConfig.factory and of the run methods (RunSpec).     *)
(***************************************************************************)
\* The commands the documentation of factory declares invalid.
KnownPatterns == {"fade", "scroll", "solid_color", "stripes", "off"}
MissingOrMalformed(k) ==
    \/ k.pattern \notin KnownPatterns
    \/ /\ k.pattern = "solid_color"
       /\ (k.color = None \/ ~is_color(k.color))
    \/ /\ k.pattern \in {"fade", "scroll", "stripes"}
       /\ \/ k.color_list = None
          \/ k.color_list.items = <<>>
          \/ \E i \in 1..Len(k.color_list.items) : ~is_color(k.color_list.items[i])

\* C5: factory raises ValueError for every missing or malformed required
\* field and every unknown pattern name, with or without strobe, and
\* returns the named pattern in all other cases.
C5_FactoryValidates ==
    rpc # "factory" =>
        IF MissingOrMalformed(kwargs)
        THEN light.exc = "ValueError"
        ELSE /\ IsLight(light)
             /\ light.name = kwargs.pattern
             /\ light.strobe = kwargs.strobe

C5_Witness ==
    /\ rpc = "raised"
    /\ kwargs.pattern = "fade"
    /\ kwargs.color_list = PyList(<<>>)
    /\ kwargs.strobe

C7_DynamicRunNeverEnds ==
    (IsLight(light) /\ light.type = "dynamic") =>
        /\ rpc \notin {"raised", "finished"}
        /\ Len(pushed) = cursor
        /\ \A i \in 1..Len(slept) : slept[i] = light.speed /\ slept[i] > 0

(***************************************************************************)
(* Properties of the reconnection loop and of main.                        *)
(***************************************************************************)
\* The documented schedule: the delay after the n-th failure.
Schedule(n) == CASE n = 1 -> 0 [] n = 2 -> 10 [] n = 3 -> 30 [] n = 4 -> 60

\* C8: a refused connection and a name-resolution failure both add one to
\* the retry counter and sleep the delay the schedule gives for the counter
\* (0, 10, 30, 60 seconds after failures 1 to 4), and no attempt follows
\* the fifth failure.
C8_BackoffSchedule ==
    [][/\ (pc = "connect" /\ pc' = "loop") =>
            /\ reconnect_attempts' = reconnect_attempts + 1
            /\ reconnect_attempts' <= 5
            /\ reconnect_attempts' <= 4 => wait' = Schedule(reconnect_attempts')
       /\ pc' = "connect" => reconnect_attempts' < 5]_vars

C8_Witness ==
    /\ pc = "loop"
    /\ reconnect_attempts = 4
    /\ wait = 60
    /\ consec = 4

\* C9: the session is abandoned exactly on the fifth consecutive failed
\* attempt: failures before a successful connection do not count.
C9_FiveConsecutiveFailures ==
    pc = "returned" => consec = 5

\* C10: when the retry budget is exhausted main exits with a non-zero
\* status, the renderer it launched being terminated.
C10_ExhaustedExitsNonZero ==
    (mainpc = "exited" /\ pc = "returned") =>
        /\ exit_status # 0
        /\ fcserver_proc # "running"

(***************************************************************************)
(* Properties of the session: closes, connection errors, the handshake,    *)
(* the messages.                                                           *)
(***************************************************************************)
\* A step in which the handler of ConnectionClosed has run.
CloseHandled == pc = "active" /\ pc' = "loop"

\* C11: a close in the Active state is logged as info for the codes 1000 and
\* 1001 and as error for any other code, leaves the retry counter as it
\* was, and is followed by a new connection attempt; the counter only
\* moves on a failed attempt, so closes alone never end the session.
C11_CloseLeadsToReconnect ==
    [][/\ CloseHandled =>
            /\ logged'.code \in CloseCodes
            /\ logged'.level =
                  (IF logged'.code \in {1000, 1001} THEN "info" ELSE "error")
            /\ reconnect_attempts' = reconnect_attempts
            /\ reconnect_attempts' < MaxAttempts
       /\ (pc = "loop" /\ logged.code # 0 /\ pc' # pc /\ Survives) =>
            pc' = "connect"
       /\ (reconnect_attempts' # reconnect_attempts /\ Survives) =>
            (pc = "connect" /\ pc' = "loop")]_vars

C11_Witness ==
    /\ pc = "loop"
    /\ logged = LogClosed("error", 1006)
    /\ reconnect_attempts = 4

\* C12: every connection error, a close while the handshake is being sent
\* included, is followed by the reconnection policy: start_client goes back
\* to its loop and does not end with the error.
C12_ConnectionErrorsRetried ==
    [][Survives =>
         /\ (pc = "connect" /\ pc' # pc) => pc' \in {"handshake", "loop"}
         /\ (pc = "handshake" /\ closed # 0 /\ pc' # pc) => pc' = "loop"
         /\ (pc = "active" /\ closed # 0 /\ inbox = <<>> /\ pc' # pc) =>
              pc' = "loop"]_vars

\* A step in which the receive loop takes the next message.
Takes ==
    /\ pc = "active" /\ Survives
    /\ inbox # <<>> /\ Len(inbox') < Len(inbox)

\* C13: on every connection exactly one handshake is sent, with the token,
\* client name and pattern catalog start_client was given, and no message
\* of the connection is taken or given to the Controller before it.
C13_HandshakeFirst ==
    [][/\ sent' <= 1
       /\ pc' = "handshake" => sent' = 0
       /\ pc' = "active" =>
            /\ sent' = 1
            /\ hs' = [token |-> Token, client_name |-> ClientName,
                      patterns |-> Patterns]
       /\ (Takes \/ Submitted) => (sent = 1 /\ hs = hs')]_vars

C13_Witness ==
    /\ pc = "active"
    /\ sent = 1
    /\ reconnect_attempts = 1
    /\ current_proc # 0
    /\ \E p \in Pids \ {current_proc} : Exists(procs[p])

\* C14: every message that parses as structured data is forwarded to
\* Controller.run, once and in arrival order; a message that does not parse
\* is not forwarded, leaves the active run as it is, and is logged only if
\* it does not start with the keep-alive marker.
C14_MessagesForwarded ==
    [][Takes =>
         IF Decodes(Head(inbox))
         THEN /\ inbox' = Tail(inbox)
              /\ Submitted
         ELSE /\ inbox' = Tail(inbox)
              /\ UNCHANGED ctlvars
              /\ logged' # NoLog =>
                   /\ logged'.level = "info"
                   /\ ~StartsWithMarker(logged'.text)]_vars

\* C15: no message ends the session: whatever is received, the receive
\* loop goes on with the next message.
C15_NoMessageEndsSession ==
    [][Takes => pc' = "active"]_vars

(***************************************************************************)
(* Properties of FadecandyServer.                                          *)
(***************************************************************************)
\* C16: without a stop() in between, start() launches the renderer at most
\* once, whatever the probes return, and it launches none when the probe
\* finds a renderer listening.
C16_AtMostOneLaunch ==
    /\ \A i, j \in 1..Len(calls) :
          (i < j /\ calls[i].effect = "launched" /\ calls[j].effect = "launched")
             => \E k \in (i + 1)..(j - 1) : calls[k].op = "stop"
    /\ \A i \in 1..Len(calls) :
          (calls[i].op = "start" /\ calls[i].result = 0)
             => calls[i].effect = "none"

C16_Witness ==
    calls = <<Call("start", 111, "launched"), Call("start", 10061, "none"),
              Call("start", 111, "none")>>

\* C17: stop() terminates a renderer only when this instance has launched
\* one since its last stop(); it does nothing to a renderer start() merely
\* detected, never uses an absent handle, and does nothing when it follows
\* another stop().
C17_StopOnlyOwnRenderer ==
    /\ server_running => fcserver_proc = "running"
    /\ \A i \in 1..Len(calls) :
          calls[i].op = "stop" =>
             /\ calls[i].effect \in {"terminated", "none"}
             /\ calls[i].effect = "terminated" <=>
                  \E j \in 1..(i - 1) :
                     /\ calls[j].effect = "launched"
                     /\ \A k \in (j + 1)..(i - 1) : calls[k].op # "stop"
             /\ (i > 1 /\ calls[i - 1].op = "stop") => calls[i].effect = "none"

C17_Witness ==
    calls = <<Call("start", 0, "none"), Call("stop", 0, "none"),
              Call("start", 111, "launched"), Call("stop", 0, "terminated")>>

\* C18: whichever way the process exits, by returning, by a signal or by an
\* uncaught exception, a renderer that start() launched is terminated.
C18_RendererTerminatedOnExit ==
    (mainpc = "exited" /\ atexit_stop) => fcserver_proc = "terminated"

(***************************************************************************)
(* Properties of the speed override and of the pattern catalog.            *)
(***************************************************************************)
\* C22: of an accepted command with an integer speed, zero and negative
\* values included, only a fade or a scroll takes the speed; the tick
\* interval 1/speed of a dynamic run is defined and strictly positive, so
\* that no sleep raises; a speed of 0 or no speed keeps the default speed.
C22_TickIntervalPositive ==
    IsLight(light) =>
        /\ light.type = "static" => light.speed = 0
        /\ light.type = "dynamic" =>
              /\ light.name \in {"fade", "scroll"}
              /\ light.speed > 0
              /\ light.speed \in {DefaultSpeed, kwargs.speed.n}
              /\ kwargs.speed \in {None, PyInt(0)} => light.speed = DefaultSpeed
              /\ rpc # "raised"
              /\ \A i \in 1..Len(slept) : slept[i] = light.speed

\* C23: every name in the catalog of the handshake is a name that
\* LightConfig.factory resolves to that same pattern, so that a command
\* with an advertised name and valid parameters is accepted; and every
\* descriptor of the catalog has the type static or dynamic, with
\* default_speed present exactly for the dynamic ones.
C23_AdvertisedNamesResolve ==
    \A i \in 1..Len(hs.patterns) :
        LET d == hs.patterns[i]
        IN  /\ \E c \in Colors, cl \in ColorLists :
                  LET l == factory([NoKwargs EXCEPT !.pattern = d.name,
                                                    !.color = c,
                                                    !.color_list = cl])
                  IN  IsLight(l) /\ l.name = getattr_patterns(d.name).name
            /\ d.type \in {"static", "dynamic"}
            /\ ("default_speed" \in DOMAIN d) <=> (d.type = "dynamic")

(***************************************************************************)
(* Properties of a run that fails.                                         *)
(***************************************************************************)
\* A step in which the run of process p ended by a fault of its own.
RunFailed(p) == procs[p].state = "started" /\ ~is_alive(procs'[p])

\* C21: a fault raised while a run executes ends only that run: the
\* session, its receive loop and the Controller are left as they were, every
\* other process too, and the next command the loop takes after the failed
\* run starts a new process with that command and terminates nothing.
C21_RunFailureEndsOnlyThatRun ==
    [][/\ \A p \in Pids : RunFailed(p) =>
            /\ UNCHANGED <<mainvars, clientvars, current_proc>>
            /\ procs'[p].kwargs = procs[p].kwargs
            /\ \A q \in Pids \ {p} : procs'[q] = procs[q]
       /\ (/\ Takes /\ IsMapping(Head(inbox))
           /\ current_proc # 0 /\ procs[current_proc].state = "dead") =>
            /\ pc' = "active"
            /\ Submitted
            /\ procs'[current_proc'].state = "started"
            /\ procs'[current_proc'].kwargs \in Commands
            /\ \A q \in Pids : procs'[q].state = "signalled" =>
                                  procs[q].state = "signalled"]_vars

\* The run of a valid command has failed, the session is active and the
\* next command is waiting.
C21_Witness ==
    /\ pc = "active"
    /\ current_proc # 0
    /\ procs[current_proc] = [kwargs |-> CmdFade, state |-> "dead"]
    /\ inbox # <<>> /\ IsMapping(Head(inbox))

====
